---- MODULE Spec2Model ----
(***************************************************************************)
(* Model of the JWK Set client of src/http.go: HTTPClient, its two         *)
(* constructors, its Storage methods KeyDelete, KeyRead, KeyReadAll and    *)
(* KeyWrite, and combineStorage, on which its export methods rest.  A      *)
(* store is the set of JWKs it holds (at most one per key ID).  The local  *)
(* store is c.given, the remote stores are the values of                   *)
(* the map c.httpURLs.  A `range` over that map visits its entries in an   *)
(* order the Go runtime picks anew for every loop, so each loop takes its  *)
(* order as an input.  KeyRead is cut at its one blocking point, the wait  *)
(* on the refresh rate limiter.                                            *)
(***************************************************************************)
EXTENDS Integers, Sequences, FiniteSets, Bags, TLC

\* ---------------------------------------------------------------- bounds
NumKIDs == 2
NumRemotes == 2
NumVals == 2
NumProcs == 1
MaxBurst == 1
NumCallers == 2

\* burst of rate.NewLimiter(rate.Every(5*time.Minute), 1)
DefaultBurst == 1
\* the source number of c.given; the remote sources are 1..NumRemotes
GivenSrc == 0

KIDs == 1..NumKIDs
URLs == 1..NumRemotes
Vals == 1..NumVals
Procs == 1..NumProcs
Callers == 1..NumCallers

VARIABLES
    client,             \* construction: the status and the constructor called
    given,              \* HTTPClient.given: the local store's contents
    httpURLs,           \* HTTPClient.httpURLs: url -> the remote store's contents
    prioritizeHTTP,     \* HTTPClient.prioritizeHTTP
    rateLimitWaitMax,   \* HTTPClient.rateLimitWaitMax (0: no bound)
    refreshUnknownKID,  \* HTTPClient.refreshUnknownKID: the limiter, burst 0 for nil
    waiting,            \* per caller: the key ID of its KeyRead blocked in Wait, or 0
    lastWritten,        \* history: per key ID, the value last written and not deleted since
    last                \* the last event: the call that returned, and what it returned

vars == <<client, given, httpURLs, prioritizeHTTP, rateLimitWaitMax,
          refreshUnknownKID, waiting, lastWritten, last>>

\* ------------------------------------------------------------------ keys
\* JWK{}: the zero value KeyRead returns beside an error
ZeroJWK == [kid |-> 0, src |-> 0, v |-> 0]

\* a key a caller writes: key ID k, key material v
GivenJWK(k, v) == [kid |-> k, src |-> GivenSrc, v |-> v]

\* the key the endpoint of remote r serves under key ID k
RemoteJWK(r, k) == [kid |-> k, src |-> r, v |-> 1]

RemoteSet(r, S) == {RemoteJWK(r, k) : k \in S}

Range(s) == {s[i] : i \in DOMAIN s}

Perms(S) == {s \in [1..Cardinality(S) -> S] : Range(s) = S}

\* ------------------------------------------------- the Key Store contract
Holds(store, id) == \E j \in store : j.kid = id

\* Storage.KeyRead: the key, ErrKeyNotFound, or another failure
StoreKeyRead(store, id, fails) ==
    IF fails THEN [err |-> "other", jwk |-> ZeroJWK]
    ELSE IF Holds(store, id)
         THEN [err |-> "nil", jwk |-> CHOOSE j \in store : j.kid = id]
         ELSE [err |-> "ErrKeyNotFound", jwk |-> ZeroJWK]

\* Storage.KeyDelete: (ok, err) and the store afterwards
StoreKeyDelete(store, id, fails) ==
    IF fails THEN [ok |-> FALSE, err |-> "other", store |-> store]
    ELSE [ok |-> Holds(store, id), err |-> "nil",
          store |-> {j \in store : j.kid # id}]

\* Storage.KeyWrite: the key replaces the one held under its key ID
StoreKeyWrite(store, jwk) == {j \in store : j.kid # jwk.kid} \cup {jwk}

RECURSIVE SeqOfSet(_)
SeqOfSet(S) ==
    IF S = {} THEN <<>>
    ELSE LET j == CHOOSE x \in S : \A y \in S : x.kid <= y.kid
         IN <<j>> \o SeqOfSet(S \ {j})

\* Storage.KeyReadAll: every key of the store
StoreKeyReadAll(store, fails) ==
    IF fails THEN [err |-> "other", jwks |-> <<>>]
    ELSE [err |-> "nil", jwks |-> SeqOfSet(store)]

\* ----------------------------------------------------------- the limiter
NilLimiter == [burst |-> 0, tokens |-> 0]

\* rate.NewLimiter(r, b): b tokens at first
NewLimiter(b) == [burst |-> b, tokens |-> b]

\* ------------------------------------------------------------ the events
NoEvent ==
    [op |-> "none", id |-> 0, kind |-> "none", jwk |-> ZeroJWK, from |-> 0,
     via |-> "none", ok |-> FALSE, consulted |-> <<>>, refreshed |-> <<>>,
     held |-> {}, jwks |-> <<>>, combined |-> {}]

Sources == {GivenSrc} \cup DOMAIN httpURLs

Store(s) == IF s = GivenSrc THEN given ELSE httpURLs[s]

\* the sources that hold key ID id
Holders(id) == {s \in Sources : Holds(Store(s), id)}

\* the sources whose operations fail in one call: none, or one of them
FailChoices == {{}} \cup {{s} : s \in Sources}

\* ---------------------------------------------------------- construction
Init ==
    /\ client = [status |-> "new", by |-> "none", err |-> "nil"]
    /\ given = {}
    /\ httpURLs = [u \in {} |-> {}]
    /\ prioritizeHTTP = FALSE
    /\ rateLimitWaitMax = 0
    /\ refreshUnknownKID = NilLimiter
    /\ waiting = [p \in Procs |-> 0]
    /\ lastWritten = [k \in KIDs |-> 0]
    /\ last = NoEvent

\* the URL strings of a call: the first n that parse, with or without the
\* one that does not
URLSets ==
    UNION {{1..n, (1..n) \cup {NumRemotes + 1}} : n \in 0..NumRemotes}

\* a remote store as the caller passes it: nil, or a store holding the keys
\* of its endpoint under the key IDs kids
NilStore == [nil |-> TRUE, kids |-> {}]

BuiltStores == {[nil |-> FALSE, kids |-> S] : S \in SUBSET KIDs}

\* the options a caller may pass to NewHTTPClient.  The string that does
\* not parse comes without a store; RateLimitWaitMax is read only beside a
\* limiter and is left zero without one.
HTTPURLsChoices ==
    UNION {{m \in [D -> {NilStore} \cup BuiltStores] :
               \A u \in D : u \notin URLs => m[u] = NilStore} : D \in URLSets}

OptionChoices ==
    {o \in [Given : {"nil", "store"}, HTTPURLs : HTTPURLsChoices,
            PrioritizeHTTP : BOOLEAN, RateLimitWaitMax : 0..1,
            RefreshUnknownKID : 0..MaxBurst] :
        o.RefreshUnknownKID = 0 => o.RateLimitWaitMax = 0}

\* the string among URLs that is an absolute path ("/jwks.json"): a request
\* URI with no scheme and no host; the others are absolute URLs
PathURL == NumRemotes

AbsoluteURL(u) == u \in URLs /\ u # PathURL

\* url.ParseRequestURI: nil for an absolute URI and for an absolute path
ParseRequestURI(u) == u \in URLs

\* the constructor returns nil and an error that wraps ErrNewClient
Failed(by, err) ==
    /\ client' = [status |-> "ErrNewClient", by |-> by, err |-> err]
    /\ UNCHANGED <<given, httpURLs, prioritizeHTTP, rateLimitWaitMax,
                   refreshUnknownKID, waiting, lastWritten, last>>

\* the errors lines 51-65 may return: the loop visits the entries in any
\* order and returns at the first bare identifier that does not parse or
\* whose store is not created
ConstructErrors(options, storageOK) ==
    LET urls == DOMAIN options.HTTPURLs
        bare == {u \in urls : options.HTTPURLs[u].nil}
    IN  IF options.Given = "nil" /\ urls = {}
        THEN {"no given keys or HTTP URLs"}
        ELSE (IF \E u \in bare : ~ParseRequestURI(u)
              THEN {"failed to parse given URL"} ELSE {})
             \cup
             (IF ~storageOK /\ \E u \in bare : ParseRequestURI(u)
              THEN {"failed to create HTTP client storage"} ELSE {})

\* NewHTTPClient, called by `by`; storageOK: whether NewStorageFromHTTP succeeds
Construct(by, options, storageOK) ==
    LET urls == DOMAIN options.HTTPURLs
        errs == ConstructErrors(options, storageOK)
    IN  IF errs # {}
        THEN \E e \in errs : Failed(by, e)
        ELSE /\ client' = [status |-> "ok", by |-> by, err |-> "nil"]
             /\ given' = {}
             /\ httpURLs' = [u \in urls |-> RemoteSet(u, options.HTTPURLs[u].kids)]
             /\ prioritizeHTTP' = options.PrioritizeHTTP
             /\ rateLimitWaitMax' = options.RateLimitWaitMax
             /\ refreshUnknownKID' =
                    IF options.RefreshUnknownKID = 0 THEN NilLimiter
                    ELSE NewLimiter(options.RefreshUnknownKID)
             /\ UNCHANGED <<waiting, lastWritten, last>>

NewHTTPClient(options, storageOK) ==
    /\ client.status = "new"
    /\ Construct("NewHTTPClient", options, storageOK)

\* the options NewDefaultHTTPClientCtx hands to NewHTTPClient when no
\* HTTPClientOption overrides them; stores: per url, the store
\* NewStorageFromHTTP built for it
DefaultOptions(stores) ==
    [Given |-> "nil", HTTPURLs |-> stores,
     PrioritizeHTTP |-> FALSE, RateLimitWaitMax |-> 1,
     RefreshUnknownKID |-> DefaultBurst]

NewDefaultHTTPClientCtx(stores, storageOK) ==
    /\ client.status = "new"
    /\ LET errs ==
               (IF \E u \in DOMAIN stores : ~ParseRequestURI(u)
                THEN {"failed to parse given URL"} ELSE {})
               \cup
               (IF ~storageOK /\ \E u \in DOMAIN stores : ParseRequestURI(u)
                THEN {"failed to create HTTP client storage"} ELSE {})
       IN  IF errs # {}
           THEN \E e \in errs : Failed("NewDefaultHTTPClientCtx", e)
           ELSE Construct("NewDefaultHTTPClientCtx", DefaultOptions(stores), TRUE)

\* ------------------------------------------------------------- KeyDelete
DeleteOrder_Priority(order) ==
    IF prioritizeHTTP THEN order \o <<GivenSrc>> ELSE <<GivenSrc>> \o order

\* the order KeyDelete tries the sources in: c.given, then the map's entries
DeleteOrder(order) == <<GivenSrc>> \o order

DeleteFrom_GivenOnly(id, seq, f, i) ==
    LET d == StoreKeyDelete(Store(seq[1]), id, seq[1] \in f)
    IN  IF d.err = "other" THEN [ok |-> FALSE, kind |-> "error", from |-> seq[1]]
        ELSE [ok |-> d.ok, kind |-> "nil", from |-> seq[1]]

\* KeyDelete's walk from the i-th source of seq on: the first source that
\* fails ends it with that failure, the first that deletes ends it with true
RECURSIVE DeleteFrom(_, _, _, _)
DeleteFrom(id, seq, f, i) ==
    IF i > Len(seq) THEN [ok |-> FALSE, kind |-> "nil", from |-> GivenSrc]
    ELSE LET d == StoreKeyDelete(Store(seq[i]), id, seq[i] \in f)
         IN  IF d.err = "other"
             THEN [ok |-> FALSE, kind |-> "error", from |-> seq[i]]
             ELSE IF d.ok THEN [ok |-> TRUE, kind |-> "nil", from |-> seq[i]]
             ELSE DeleteFrom(id, seq, f, i + 1)

KeyDelete(id, order, f) ==
    /\ client.status = "ok"
    /\ LET r == DeleteFrom(id, DeleteOrder(order), f, 1)
           after(s) == IF r.ok /\ r.from = s
                       THEN StoreKeyDelete(Store(s), id, FALSE).store
                       ELSE Store(s)
       IN  /\ given' = after(GivenSrc)
           /\ httpURLs' = [u \in DOMAIN httpURLs |-> after(u)]
           /\ lastWritten' = IF r.ok THEN [lastWritten EXCEPT ![id] = 0]
                             ELSE lastWritten
           /\ last' = [NoEvent EXCEPT !.op = "KeyDelete", !.id = id,
                          !.ok = r.ok, !.kind = r.kind, !.from = r.from,
                          !.held = Holders(id)]
    /\ UNCHANGED <<client, prioritizeHTTP, rateLimitWaitMax,
                   refreshUnknownKID, waiting>>

\* --------------------------------------------------------------- KeyRead
SourceOrder_RemotesFirst(order) == order \o <<GivenSrc>>

SourceOrder_GivenFirst(order) == <<GivenSrc>> \o order

SourceOrder_RemotesOnly(order) ==
    IF prioritizeHTTP THEN order \o <<GivenSrc>> ELSE order

\* the order KeyRead consults the sources in before any refresh
SourceOrder(order) ==
    IF prioritizeHTTP THEN order \o <<GivenSrc>> ELSE <<GivenSrc>> \o order

RECURSIVE ReadFrom_SkipsFailure(_, _, _, _)
ReadFrom_SkipsFailure(id, seq, f, i) ==
    IF i > Len(seq)
    THEN [kind |-> "ErrKeyNotFound", jwk |-> ZeroJWK, from |-> GivenSrc,
          consulted |-> seq]
    ELSE LET r == StoreKeyRead(Store(seq[i]), id, seq[i] \in f)
         IN  IF r.err # "nil" THEN ReadFrom_SkipsFailure(id, seq, f, i + 1)
             ELSE [kind |-> "jwk", jwk |-> r.jwk, from |-> seq[i],
                   consulted |-> SubSeq(seq, 1, i)]

\* KeyRead's lookups from the i-th source of seq on: ErrKeyNotFound moves on
\* to the next source, another failure or a key ends the walk
RECURSIVE ReadFrom(_, _, _, _)
ReadFrom(id, seq, f, i) ==
    IF i > Len(seq)
    THEN [kind |-> "ErrKeyNotFound", jwk |-> ZeroJWK, from |-> GivenSrc,
          consulted |-> seq]
    ELSE LET r == StoreKeyRead(Store(seq[i]), id, seq[i] \in f)
         IN  IF r.err = "ErrKeyNotFound" THEN ReadFrom(id, seq, f, i + 1)
             ELSE IF r.err = "other"
             THEN [kind |-> "error", jwk |-> ZeroJWK, from |-> seq[i],
                   consulted |-> SubSeq(seq, 1, i)]
             ELSE [kind |-> "jwk", jwk |-> r.jwk, from |-> seq[i],
                   consulted |-> SubSeq(seq, 1, i)]

RefreshOnMiss_Always == TRUE

\* line 184: a miss goes on to the limiter only when one is configured
RefreshOnMiss == refreshUnknownKID # NilLimiter

\* lines 150-184: the lookups; a miss returns ErrKeyNotFound when no limiter
\* is configured and goes on to Wait otherwise
KeyRead(p, id, order, f) ==
    /\ client.status = "ok"
    /\ waiting[p] = 0
    /\ LET r == ReadFrom(id, SourceOrder(order), f, 1)
       IN  IF r.kind = "ErrKeyNotFound" /\ RefreshOnMiss
           THEN /\ waiting' = [waiting EXCEPT ![p] = id]
                /\ UNCHANGED last
           ELSE /\ last' = [NoEvent EXCEPT !.op = "KeyRead", !.id = id,
                               !.kind = r.kind, !.jwk = r.jwk, !.from = r.from,
                               !.via = "lookup", !.consulted = r.consulted,
                               !.held = Holders(id)]
                /\ UNCHANGED waiting
    /\ UNCHANGED <<client, given, httpURLs, prioritizeHTTP, rateLimitWaitMax,
                   refreshUnknownKID, lastWritten>>

\* what a forced refresh of a remote source may do: fail, or replace the
\* store's contents by the keys the endpoint serves
RefreshChoices ==
    {[ok |-> FALSE, kids |-> {}]} \cup {[ok |-> TRUE, kids |-> S] : S \in SUBSET KIDs}

\* store.options.RefreshErrorHandler != nil (line 197).  The stores that
\* NewDefaultHTTPClientCtx builds have the handler of lines 107-116; the
\* store NewHTTPClient creates for a bare identifier has empty options
\* (line 60), and the pre-built stores it is passed are taken without one.
RefreshErrorHandler(u) == client.by = "NewDefaultHTTPClientCtx"

RECURSIVE RefreshFrom_AbortsOnFailure(_, _, _, _, _, _, _)
RefreshFrom_AbortsOnFailure(id, seq, fetch, f, i, urls, done) ==
    IF i > Len(seq)
    THEN [kind |-> "ErrKeyNotFound", jwk |-> ZeroJWK, from |-> GivenSrc,
          urls |-> urls, refreshed |-> done]
    ELSE LET u == seq[i]
             now == Append(done, [url |-> u, ok |-> fetch[u].ok,
                                  handled |-> ~fetch[u].ok /\ RefreshErrorHandler(u)])
         IN  IF ~fetch[u].ok
             THEN [kind |-> "ErrKeyNotFound", jwk |-> ZeroJWK, from |-> GivenSrc,
                   urls |-> urls, refreshed |-> now]
             ELSE LET next == [urls EXCEPT ![u] = RemoteSet(u, fetch[u].kids)]
                      r == StoreKeyRead(next[u], id, u \in f)
                  IN  IF r.err = "ErrKeyNotFound"
                      THEN RefreshFrom_AbortsOnFailure(id, seq, fetch, f, i + 1,
                                                       next, now)
                      ELSE IF r.err = "other"
                      THEN [kind |-> "error", jwk |-> ZeroJWK, from |-> u,
                            urls |-> next, refreshed |-> now]
                      ELSE [kind |-> "jwk", jwk |-> r.jwk, from |-> u,
                            urls |-> next, refreshed |-> now]

RECURSIVE RefreshFrom_ReadsGiven(_, _, _, _, _, _, _)
RefreshFrom_ReadsGiven(id, seq, fetch, f, i, urls, done) ==
    IF i > Len(seq)
    THEN [kind |-> "ErrKeyNotFound", jwk |-> ZeroJWK, from |-> GivenSrc,
          urls |-> urls, refreshed |-> done]
    ELSE LET u == seq[i]
             now == Append(done, [url |-> u, ok |-> fetch[u].ok,
                                  handled |-> ~fetch[u].ok /\ RefreshErrorHandler(u)])
         IN  IF ~fetch[u].ok
             THEN RefreshFrom_ReadsGiven(id, seq, fetch, f, i + 1, urls, now)
             ELSE LET next == [urls EXCEPT ![u] = RemoteSet(u, fetch[u].kids)]
                      g == StoreKeyRead(given, id, FALSE)
                      r == StoreKeyRead(next[u], id, u \in f)
                  IN  IF g.err = "nil"
                      THEN [kind |-> "jwk", jwk |-> g.jwk, from |-> GivenSrc,
                            urls |-> next, refreshed |-> now]
                      ELSE IF r.err = "ErrKeyNotFound"
                      THEN RefreshFrom_ReadsGiven(id, seq, fetch, f, i + 1, next, now)
                      ELSE IF r.err = "other"
                      THEN [kind |-> "error", jwk |-> ZeroJWK, from |-> u,
                            urls |-> next, refreshed |-> now]
                      ELSE [kind |-> "jwk", jwk |-> r.jwk, from |-> u,
                            urls |-> next, refreshed |-> now]

RECURSIVE RefreshFrom_Stale(_, _, _, _, _, _, _)
RefreshFrom_Stale(id, seq, fetch, f, i, urls, done) ==
    IF i > Len(seq)
    THEN [kind |-> "ErrKeyNotFound", jwk |-> ZeroJWK, from |-> GivenSrc,
          urls |-> urls, refreshed |-> done]
    ELSE LET u == seq[i]
             now == Append(done, [url |-> u, ok |-> fetch[u].ok,
                                  handled |-> ~fetch[u].ok /\ RefreshErrorHandler(u)])
         IN  IF ~fetch[u].ok
             THEN RefreshFrom_Stale(id, seq, fetch, f, i + 1, urls, now)
             ELSE LET next == [urls EXCEPT ![u] = RemoteSet(u, fetch[u].kids)]
                      r == StoreKeyRead(urls[u], id, u \in f)
                  IN  IF r.err = "ErrKeyNotFound"
                      THEN RefreshFrom_Stale(id, seq, fetch, f, i + 1, next, now)
                      ELSE IF r.err = "other"
                      THEN [kind |-> "error", jwk |-> ZeroJWK, from |-> u,
                            urls |-> next, refreshed |-> now]
                      ELSE [kind |-> "jwk", jwk |-> r.jwk, from |-> u,
                            urls |-> next, refreshed |-> now]

\* lines 194-211 from the i-th remote source of seq on.  urls is the map as
\* the refreshes so far have left it, done the refreshes called so far, each
\* with whether it succeeded.
RECURSIVE RefreshFrom(_, _, _, _, _, _, _)
RefreshFrom(id, seq, fetch, f, i, urls, done) ==
    IF i > Len(seq)
    THEN [kind |-> "ErrKeyNotFound", jwk |-> ZeroJWK, from |-> GivenSrc,
          urls |-> urls, refreshed |-> done]
    ELSE LET u == seq[i]
             now == Append(done, [url |-> u, ok |-> fetch[u].ok,
                                  handled |-> ~fetch[u].ok /\ RefreshErrorHandler(u)])
         IN  IF ~fetch[u].ok
             THEN RefreshFrom(id, seq, fetch, f, i + 1, urls, now)
             ELSE LET next == [urls EXCEPT ![u] = RemoteSet(u, fetch[u].kids)]
                      r == StoreKeyRead(next[u], id, u \in f)
                  IN  IF r.err = "ErrKeyNotFound"
                      THEN RefreshFrom(id, seq, fetch, f, i + 1, next, now)
                      ELSE IF r.err = "other"
                      THEN [kind |-> "error", jwk |-> ZeroJWK, from |-> u,
                            urls |-> next, refreshed |-> now]
                      ELSE [kind |-> "jwk", jwk |-> r.jwk, from |-> u,
                            urls |-> next, refreshed |-> now]

WaitAdmits_Always == TRUE

WaitAdmits_AnyLimiter == refreshUnknownKID.burst > 0

\* line 190 returns nil: the limiter has a token for the caller
WaitAdmits == refreshUnknownKID.tokens > 0

\* lines 190-213 when Wait returns nil: the token is taken, every remote
\* source is refreshed and read in turn
KeyReadAdmitted(p, order, fetch, f) ==
    /\ client.status = "ok"
    /\ waiting[p] # 0
    /\ WaitAdmits
    /\ LET r == RefreshFrom(waiting[p], order, fetch, f, 1, httpURLs, <<>>)
       IN  /\ httpURLs' = r.urls
           /\ last' = [NoEvent EXCEPT !.op = "KeyRead", !.id = waiting[p],
                          !.kind = r.kind, !.jwk = r.jwk, !.from = r.from,
                          !.via = "refresh", !.refreshed = r.refreshed,
                          !.held = Holders(waiting[p])]
    /\ refreshUnknownKID' =
           [refreshUnknownKID EXCEPT !.tokens = refreshUnknownKID.tokens - 1]
    /\ waiting' = [waiting EXCEPT ![p] = 0]
    /\ UNCHANGED <<client, given, prioritizeHTTP, rateLimitWaitMax, lastWritten>>

WaitFailures_NoDeadline == {"canceled"}

\* why Wait may return an error: the caller's context is cancelled, or no
\* token comes before the deadline that rateLimitWaitMax sets
WaitFailures ==
    {"canceled"} \cup
    (IF rateLimitWaitMax > 0 /\ refreshUnknownKID.tokens = 0
     THEN {"deadline"} ELSE {})

KeyReadWaitFails_Refreshes(p, cause) ==
    /\ client.status = "ok"
    /\ waiting[p] # 0
    /\ cause \in WaitFailures
    /\ httpURLs' = [u \in DOMAIN httpURLs |-> RemoteSet(u, KIDs)]
    /\ last' = [NoEvent EXCEPT !.op = "KeyRead", !.id = waiting[p],
                   !.kind = "ratelimit", !.via = cause,
                   !.held = Holders(waiting[p])]
    /\ waiting' = [waiting EXCEPT ![p] = 0]
    /\ UNCHANGED <<client, given, prioritizeHTTP, rateLimitWaitMax,
                   refreshUnknownKID, lastWritten>>

\* lines 190-193 when Wait returns an error
KeyReadWaitFails(p, cause) ==
    /\ client.status = "ok"
    /\ waiting[p] # 0
    /\ cause \in WaitFailures
    /\ last' = [NoEvent EXCEPT !.op = "KeyRead", !.id = waiting[p],
                   !.kind = "ratelimit", !.via = cause,
                   !.held = Holders(waiting[p])]
    /\ waiting' = [waiting EXCEPT ![p] = 0]
    /\ UNCHANGED <<client, given, httpURLs, prioritizeHTTP, rateLimitWaitMax,
                   refreshUnknownKID, lastWritten>>

\* the limiter gains a token as time passes
LimiterReplenish ==
    /\ client.status = "ok"
    /\ refreshUnknownKID.tokens < refreshUnknownKID.burst
    /\ refreshUnknownKID' =
           [refreshUnknownKID EXCEPT !.tokens = refreshUnknownKID.tokens + 1]
    /\ UNCHANGED <<client, given, httpURLs, prioritizeHTTP, rateLimitWaitMax,
                   waiting, lastWritten, last>>

\* ------------------------------------------------------------ KeyReadAll
RECURSIVE ReadAllFrom_Dedup(_, _, _, _)
ReadAllFrom_Dedup(seq, f, i, jwks) ==
    IF i > Len(seq) THEN [kind |-> "nil", from |-> GivenSrc, jwks |-> jwks]
    ELSE LET r == StoreKeyReadAll(Store(seq[i]), seq[i] \in f)
             new == SelectSeq(r.jwks,
                        LAMBDA j : \A n \in DOMAIN jwks : jwks[n].kid # j.kid)
         IN  IF r.err # "nil"
             THEN [kind |-> "error", from |-> seq[i], jwks |-> <<>>]
             ELSE ReadAllFrom_Dedup(seq, f, i + 1, jwks \o new)

\* lines 220-226 from the i-th remote source of seq on
RECURSIVE ReadAllFrom(_, _, _, _)
ReadAllFrom(seq, f, i, jwks) ==
    IF i > Len(seq) THEN [kind |-> "nil", from |-> GivenSrc, jwks |-> jwks]
    ELSE LET r == StoreKeyReadAll(Store(seq[i]), seq[i] \in f)
         IN  IF r.err # "nil"
             THEN [kind |-> "error", from |-> seq[i], jwks |-> <<>>]
             ELSE ReadAllFrom(seq, f, i + 1, jwks \o r.jwks)

\* KeyReadAll's result: the keys of c.given, then those of every remote source
ReadAll(order, f) ==
    LET g == StoreKeyReadAll(given, GivenSrc \in f)
    IN  IF g.err # "nil"
        THEN [kind |-> "error", from |-> GivenSrc, jwks |-> <<>>]
        ELSE ReadAllFrom(order, f, 1, g.jwks)

KeyReadAll(order, f) ==
    /\ client.status = "ok"
    /\ LET r == ReadAll(order, f)
       IN  last' = [NoEvent EXCEPT !.op = "KeyReadAll", !.kind = r.kind,
                       !.from = r.from, !.jwks = r.jwks]
    /\ UNCHANGED <<client, given, httpURLs, prioritizeHTTP, rateLimitWaitMax,
                   refreshUnknownKID, waiting, lastWritten>>

\* -------------------------------------------------------- combineStorage
RECURSIVE CombineFrom_FirstWins(_, _, _)
CombineFrom_FirstWins(jwks, i, m) ==
    IF i > Len(jwks) THEN m
    ELSE CombineFrom_FirstWins(jwks, i + 1,
             IF Holds(m, jwks[i].kid) THEN m ELSE StoreKeyWrite(m, jwks[i]))

\* lines 282-287 from the i-th key of jwks on: each key is written to the
\* memory store m
RECURSIVE CombineFrom(_, _, _)
CombineFrom(jwks, i, m) ==
    IF i > Len(jwks) THEN m
    ELSE CombineFrom(jwks, i + 1, StoreKeyWrite(m, jwks[i]))

\* combineStorage, which every export method calls first (JSON, JSONPublic,
\* JSONPrivate, JSONWithOptions, Marshal, MarshalWithOptions); writeOK:
\* whether the writes to the memory store succeed
combineStorage(order, f, writeOK) ==
    /\ client.status = "ok"
    /\ LET r == ReadAll(order, f)
       IN  last' =
             IF r.kind # "nil"
             THEN [NoEvent EXCEPT !.op = "combineStorage", !.kind = "error",
                      !.from = r.from, !.via = "KeyReadAll"]
             ELSE IF ~writeOK /\ r.jwks # <<>>
             THEN [NoEvent EXCEPT !.op = "combineStorage", !.kind = "error",
                      !.via = "KeyWrite"]
             ELSE [NoEvent EXCEPT !.op = "combineStorage", !.kind = "nil",
                      !.combined = CombineFrom(r.jwks, 1, {})]
    /\ UNCHANGED <<client, given, httpURLs, prioritizeHTTP, rateLimitWaitMax,
                   refreshUnknownKID, waiting, lastWritten>>

\* -------------------------------------------------------------- KeyWrite
WriteTarget_Prioritized ==
    IF prioritizeHTTP /\ DOMAIN httpURLs # {}
    THEN CHOOSE u \in DOMAIN httpURLs : TRUE ELSE GivenSrc

\* the store KeyWrite hands the key to
WriteTarget == GivenSrc

KeyWrite(jwk, f) ==
    /\ client.status = "ok"
    /\ LET t == WriteTarget
           failed == t \in f
           after(s) == IF s = t /\ ~failed THEN StoreKeyWrite(Store(s), jwk)
                       ELSE Store(s)
       IN  /\ given' = after(GivenSrc)
           /\ httpURLs' = [u \in DOMAIN httpURLs |-> after(u)]
           /\ lastWritten' = IF failed THEN lastWritten
                             ELSE [lastWritten EXCEPT ![jwk.kid] = jwk.v]
           /\ last' = [NoEvent EXCEPT !.op = "KeyWrite", !.id = jwk.kid,
                          !.jwk = jwk, !.from = t,
                          !.kind = IF failed THEN "error" ELSE "nil"]
    /\ UNCHANGED <<client, prioritizeHTTP, rateLimitWaitMax,
                   refreshUnknownKID, waiting>>

\* ------------------------------------------------------ the specification
Orders == Perms(DOMAIN httpURLs)

Next ==
    \/ \E o \in OptionChoices, ok \in BOOLEAN : NewHTTPClient(o, ok)
    \/ \E D \in URLSets, ok \in BOOLEAN :
          \E st \in [D -> BuiltStores] : NewDefaultHTTPClientCtx(st, ok)
    \/ \E id \in KIDs, o \in Orders, f \in FailChoices : KeyDelete(id, o, f)
    \/ \E p \in Procs, id \in KIDs, o \in Orders, f \in FailChoices :
           KeyRead(p, id, o, f)
    \/ \E p \in Procs, o \in Orders, f \in FailChoices,
          fetch \in [DOMAIN httpURLs -> RefreshChoices] :
           KeyReadAdmitted(p, o, fetch, f)
    \/ \E p \in Procs, cause \in {"canceled", "deadline"} :
           KeyReadWaitFails(p, cause)
    \/ LimiterReplenish
    \/ \E o \in Orders, f \in FailChoices : KeyReadAll(o, f)
    \/ \E k \in KIDs, v \in Vals, f \in {{}, {GivenSrc}} : KeyWrite(GivenJWK(k, v), f)
    \/ \E o \in Orders, f \in FailChoices, w \in BOOLEAN : combineStorage(o, f, w)

Spec == Init /\ [][Next]_vars

\* ------------------------------------------- the read path as time passes
\* the options of a client that is only read: bare identifiers, whose stores
\* are empty until a refresh fills them
LiveOptionChoices ==
    {o \in OptionChoices :
        /\ o.Given = "store"
        /\ \E n \in 0..NumRemotes : o.HTTPURLs = [u \in 1..n |-> NilStore]}

NextLive ==
    \/ \E o \in LiveOptionChoices : NewHTTPClient(o, TRUE)
    \/ \E p \in Procs, id \in KIDs, o \in Orders, f \in FailChoices :
           KeyRead(p, id, o, f)
    \/ \E p \in Procs, o \in Orders, f \in FailChoices,
          fetch \in [DOMAIN httpURLs -> RefreshChoices] :
           KeyReadAdmitted(p, o, fetch, f)
    \/ \E p \in Procs, cause \in {"canceled", "deadline"} :
           KeyReadWaitFails(p, cause)
    \/ LimiterReplenish

\* line 190 returns nil to caller p
Admitted(p) ==
    \E o \in Orders, f \in FailChoices,
       fetch \in [DOMAIN httpURLs -> RefreshChoices] :
        KeyReadAdmitted(p, o, fetch, f)

\* what the passing of time brings a caller blocked in Wait: the timer of
\* context.WithTimeout (line 187) fires, and a caller for whom the limiter
\* has a token again and again gets one
WaitFairness ==
    \A p \in Procs :
        /\ WF_vars(KeyReadWaitFails(p, "deadline"))
        /\ SF_vars(Admitted(p))

LiveSpec == Init /\ [][NextLive]_vars /\ WaitFairness

\* ------------------------------- concurrent KeyRead calls on one limiter
\* several callers in KeyRead at once, on a client with a limiter that gains
\* no token while they run
InitConcurrent ==
    /\ client = [status |-> "new", by |-> "none", err |-> "nil"]
    /\ given = {}
    /\ httpURLs = [u \in {} |-> {}]
    /\ prioritizeHTTP = FALSE
    /\ rateLimitWaitMax = 0
    /\ refreshUnknownKID = NilLimiter
    /\ waiting = [p \in Callers |-> 0]
    /\ lastWritten = [k \in KIDs |-> 0]
    /\ last = NoEvent

ConcurrentOptionChoices ==
    {o \in OptionChoices :
        /\ o.Given = "store"
        /\ o.RefreshUnknownKID > 0
        /\ \E n \in 1..NumRemotes : o.HTTPURLs = [u \in 1..n |-> NilStore]}

NextConcurrent ==
    \/ \E o \in ConcurrentOptionChoices : NewHTTPClient(o, TRUE)
    \/ \E p \in Callers, id \in KIDs, o \in Orders, f \in FailChoices :
           KeyRead(p, id, o, f)
    \/ \E p \in Callers, o \in Orders, f \in FailChoices,
          fetch \in [DOMAIN httpURLs -> RefreshChoices] :
           KeyReadAdmitted(p, o, fetch, f)
    \/ \E p \in Callers, cause \in {"canceled", "deadline"} :
           KeyReadWaitFails(p, cause)

SpecConcurrent == InitConcurrent /\ [][NextConcurrent]_vars

\* ================================================================ claims
Remotes == DOMAIN httpURLs

\* the event is the return of a KeyRead that ended in its lookups (it did not
\* reach the limiter), so the sources are as the call found them
LookupReturn == client.status = "ok" /\ last.op = "KeyRead" /\ last.via = "lookup"

\* C1: with prioritizeHTTP false, a KeyRead of a key ID that c.given and at
\* least one remote source hold returns the key of c.given, unless the read
\* of c.given failed with an error other than ErrKeyNotFound.
C1_GivenCopyWhenNotPrioritized ==
    (/\ LookupReturn
     /\ ~prioritizeHTTP
     /\ GivenSrc \in last.held
     /\ last.held \ {GivenSrc} # {}
     /\ ~(last.kind = "error" /\ last.from = GivenSrc))
    => /\ last.kind = "jwk"
       /\ last.from = GivenSrc
       /\ last.jwk \in given
       /\ last.jwk.kid = last.id

C1_Witness ==
    /\ LookupReturn
    /\ ~prioritizeHTTP
    /\ GivenSrc \in last.held
    /\ last.held \ {GivenSrc} # {}
    /\ last.kind = "jwk"
    /\ last.jwk = GivenJWK(last.id, lastWritten[last.id])

\* C2: with prioritizeHTTP true, a KeyRead of a key ID that at least one
\* remote source holds never consults c.given, and, no remote read failing
\* with an error other than ErrKeyNotFound, returns the key of a remote
\* source that holds the key ID.
C2_RemoteCopyWithoutGiven ==
    (/\ LookupReturn
     /\ prioritizeHTTP
     /\ last.held \ {GivenSrc} # {})
    => /\ GivenSrc \notin Range(last.consulted)
       /\ last.kind \in {"jwk", "error"}
       /\ last.from \in Remotes
       /\ last.kind = "jwk" =>
             /\ last.from \in last.held
             /\ last.jwk = RemoteJWK(last.from, last.id)
             /\ last.jwk \in httpURLs[last.from]

C2_Witness ==
    /\ LookupReturn
    /\ prioritizeHTTP
    /\ GivenSrc \in last.held
    /\ last.held \ {GivenSrc} # {}
    /\ last.kind = "jwk"
    /\ last.from \in Remotes
    /\ GivenSrc \notin Range(last.consulted)

\* one remote source and a limiter of capacity 1
OneRemoteOneToken ==
    /\ client.status = "ok"
    /\ Cardinality(Remotes) = 1
    /\ refreshUnknownKID.burst = 1

\* C3: with one remote source and a limiter of capacity 1, a KeyRead that
\* missed in every source and was admitted by the limiter calls refresh once,
\* on that source, and, the refresh succeeding and leaving the source with
\* the key ID (and the read after it not failing), returns the key that the
\* refreshed source holds under the key ID.
C3_OneRefreshThenKey ==
    (OneRemoteOneToken /\ last.op = "KeyRead" /\ last.via = "refresh")
    => \A u \in Remotes :
          /\ Len(last.refreshed) = 1
          /\ last.refreshed[1].url = u
          /\ (/\ last.refreshed[1].ok
              /\ Holds(httpURLs[u], last.id)
              /\ last.kind # "error")
             => /\ last.kind = "jwk"
                /\ last.from = u
                /\ last.jwk = RemoteJWK(u, last.id)
                /\ last.jwk \in httpURLs[u]

C3_Witness ==
    /\ OneRemoteOneToken
    /\ last.op = "KeyRead"
    /\ last.via = "refresh"
    /\ last.held = {}
    /\ Len(last.refreshed) = 1
    /\ last.kind = "jwk"
    /\ last.jwk \in httpURLs[last.from]
    /\ refreshUnknownKID.tokens = 0

\* a step that returns from a call: it leaves a new event
Returns(op) == last'.op = op /\ last' # last

\* C4 as claimed: with one remote source and a limiter of capacity 1, after
\* a KeyRead(X) that took the token and found X through the refresh, the
\* next KeyRead(X), returning while the limiter has no token, returns no
\* key but a rate-limit failure.
C4_SecondReadFails ==
    [][(/\ OneRemoteOneToken
        /\ last.op = "KeyRead" /\ last.via = "refresh" /\ last.kind = "jwk"
        /\ refreshUnknownKID.tokens = 0
        /\ Returns("KeyRead")
        /\ last'.id = last.id)
       => last'.kind = "ratelimit"]_vars

\* C4 as amended: a KeyRead that missed in every source and returns from its
\* wait while the limiter has no token returns no key: it fails with a
\* rate-limit failure, caused by the deadline of rateLimitWaitMax or by the
\* caller's cancellation, and by the cancellation alone when
\* rateLimitWaitMax is zero.
C4_NoTokenNoKey ==
    [][\A p \in Procs :
          (/\ client.status = "ok"
           /\ waiting[p] # 0
           /\ refreshUnknownKID.tokens = 0
           /\ waiting'[p] = 0)
          => /\ last'.op = "KeyRead"
             /\ last'.id = waiting[p]
             /\ last'.kind = "ratelimit"
             /\ last'.jwk = ZeroJWK
             /\ last'.via \in {"canceled", "deadline"}
             /\ rateLimitWaitMax = 0 => last'.via = "canceled"
             /\ UNCHANGED <<given, httpURLs, refreshUnknownKID>>]_vars

C4_Witness ==
    /\ OneRemoteOneToken
    /\ rateLimitWaitMax > 0
    /\ refreshUnknownKID.tokens = 0
    /\ last.op = "KeyRead"
    /\ last.kind = "ratelimit"
    /\ last.via = "deadline"
    /\ last.held = {}

\* the sources a step changes the contents of
Changed ==
    {s \in Sources : (IF s = GivenSrc THEN given' ELSE httpURLs'[s]) # Store(s)}

\* C5 as claimed: with no source failing, a KeyDelete returns true when a
\* source holds the key ID, and the KeyDelete of the same key ID right after
\* it returns false.
C5_SecondDeleteFalse ==
    [][/\ (Returns("KeyDelete") /\ last'.kind = "nil")
          => last'.ok = (Holders(last'.id) # {})
       /\ (/\ last.op = "KeyDelete" /\ last.kind = "nil" /\ last.ok
           /\ Returns("KeyDelete") /\ last'.kind = "nil"
           /\ last'.id = last.id)
          => ~last'.ok]_vars

\* C5 as amended: with no source failing, a KeyDelete returns true exactly
\* when a source holds the key ID, and the KeyDelete of the same key ID right
\* after a successful one returns false when one source held the key ID
\* before the first call and true again when several did.
C5_SecondDeleteByHolders ==
    [][/\ (Returns("KeyDelete") /\ last'.kind = "nil")
          => /\ last'.ok = (Holders(last'.id) # {})
             /\ last'.held = Holders(last'.id)
       /\ (/\ last.op = "KeyDelete" /\ last.kind = "nil" /\ last.ok
           /\ Returns("KeyDelete") /\ last'.kind = "nil"
           /\ last'.id = last.id)
          => /\ last'.held = last.held \ {last.from}
             /\ last'.ok = (Cardinality(last.held) >= 2)]_vars

C5_Witness ==
    /\ client.status = "ok"
    /\ last.op = "KeyDelete"
    /\ last.kind = "nil"
    /\ last.ok
    /\ Cardinality(last.held) >= 2
    /\ Holders(last.id) = last.held \ {last.from}

\* the sources that may come first, among those holding id, in the order
\* KeyRead consults them under prioritizeHTTP
FirstInReadOrder(id) ==
    LET remote == Holders(id) \ {GivenSrc}
    IN  IF prioritizeHTTP
        THEN (IF remote # {} THEN remote ELSE {GivenSrc})
        ELSE (IF GivenSrc \in Holders(id) THEN {GivenSrc} ELSE remote)

\* C6 as claimed: a successful KeyDelete takes the key from one source, the
\* first that holds the key ID in the order KeyRead consults the sources
\* under prioritizeHTTP, and changes no other source.
C6_DeletesFirstInReadOrder ==
    [][(Returns("KeyDelete") /\ last'.ok)
       => \E s \in FirstInReadOrder(last'.id) :
             /\ Changed = {s}
             /\ last'.from = s]_vars

\* C6 as amended: a successful KeyDelete takes the key from one source, which
\* is c.given when c.given holds the key ID, whatever prioritizeHTTP, and
\* otherwise a remote source that holds it; the source keeps its other keys
\* and no other source changes.
C6_DeletesGivenFirst ==
    [][(Returns("KeyDelete") /\ last'.ok)
       => \E s \in Holders(last'.id) :
             /\ GivenSrc \in Holders(last'.id) => s = GivenSrc
             /\ Changed = {s}
             /\ last'.from = s
             /\ (IF s = GivenSrc THEN given' ELSE httpURLs'[s])
                    = {j \in Store(s) : j.kid # last'.id}]_vars

C6_Witness ==
    /\ client.status = "ok"
    /\ prioritizeHTTP
    /\ last.op = "KeyDelete"
    /\ last.ok
    /\ last.from = GivenSrc
    /\ Cardinality(last.held) >= 2
    /\ Holders(last.id) = last.held \ {GivenSrc}

\* the bag of the entries of a sequence, and of the keys of a store
BagOfSeq(q) == [x \in Range(q) |-> Cardinality({n \in DOMAIN q : q[n] = x})]

BagOfStore(store) == [x \in store |-> 1]

RECURSIVE BagOfStores(_)
BagOfStores(S) ==
    IF S = {} THEN EmptyBag
    ELSE LET s == CHOOSE x \in S : TRUE
         IN  BagOfStore(Store(s)) (+) BagOfStores(S \ {s})

\* C7: with no source failing, KeyReadAll returns, as a bag, the sum of the
\* contents of c.given and of every remote source: a key ID that k sources
\* hold comes k times; and the call changes no source.
C7_ReadAllIsBagSum ==
    [][(Returns("KeyReadAll") /\ last'.kind = "nil")
       => /\ BagOfSeq(last'.jwks) = BagOfStores(Sources)
          /\ \A k \in KIDs :
                Cardinality({n \in DOMAIN last'.jwks : last'.jwks[n].kid = k})
                    = Cardinality(Holders(k))
          /\ UNCHANGED <<given, httpURLs>>]_vars

C7_Witness ==
    /\ client.status = "ok"
    /\ last.op = "KeyReadAll"
    /\ last.kind = "nil"
    /\ Remotes = 1..2
    /\ Holders(1) = {GivenSrc, 1}
    /\ Holders(2) = {1, 2}
    /\ Len(last.jwks) = 4
    /\ BagOfSeq(last.jwks) = BagOfStores(Sources)

\* C8: KeyWrite changes c.given alone: no step that returns from a KeyWrite
\* changes the contents of a remote source, whatever prioritizeHTTP and
\* whichever constructor built the client and its local store.
C8_WriteLeavesRemotes ==
    [][Returns("KeyWrite")
       => /\ httpURLs' = httpURLs
          /\ last'.kind = "nil" => last'.jwk \in given'
          /\ Changed \subseteq {GivenSrc}]_vars

C8_Witness ==
    /\ client.status = "ok"
    /\ client.by = "NewDefaultHTTPClientCtx"
    /\ last.op = "KeyWrite"
    /\ last.kind = "nil"
    /\ last.jwk \in given
    /\ \E u \in Remotes : Holds(httpURLs[u], last.id)

\* the client has a local store and no remote source
LocalOnly == client.status = "ok" /\ Remotes = {}

\* what C9 says of a KeyRead step of a client with only a local store, no
\* read of the store failing: a call that finds id written and not deleted
\* since returns that key; a call that does not returns ErrKeyNotFound, at
\* once without a limiter and after its wait with one.  declined: the
\* causes for which the wait may end in a rate-limit failure instead.
ReadsLastWritten(declined) ==
    /\ \A p \in Procs :
          (LocalOnly /\ waiting[p] = 0 /\ waiting'[p] # 0)
          => lastWritten[waiting'[p]] = 0
    /\ (LocalOnly /\ Returns("KeyRead") /\ last'.kind # "error")
       => \/ /\ last'.via = "lookup"
             /\ lastWritten[last'.id] # 0
             /\ last'.kind = "jwk"
             /\ last'.jwk = GivenJWK(last'.id, lastWritten[last'.id])
          \/ /\ last'.via = "lookup"
             /\ lastWritten[last'.id] = 0
             /\ refreshUnknownKID = NilLimiter
             /\ last'.kind = "ErrKeyNotFound"
          \/ /\ last'.via = "refresh"
             /\ last'.kind = "ErrKeyNotFound"
          \/ /\ last'.via \in declined
             /\ last'.kind = "ratelimit"

\* C9 as claimed: with only a local store, with or without a limiter, a
\* KeyRead returns the key last written under the key ID, and ErrKeyNotFound
\* when none was written or it was deleted since (the caller not cancelling).
C9_ReadIsLastWritten == [][ReadsLastWritten({"canceled"})]_vars

\* C9 as amended: with only a local store, a KeyRead returns the key last
\* written under the key ID and not deleted since; when there is none it
\* returns ErrKeyNotFound, except that with a limiter configured the call
\* waits on the limiter first and returns a rate-limit failure when the wait
\* ends by the deadline of rateLimitWaitMax or the caller's cancellation.
C9_ReadIsLastWrittenOrRateLimited ==
    [][ReadsLastWritten({"canceled", "deadline"})]_vars

C9_Witness ==
    /\ LocalOnly
    /\ refreshUnknownKID # NilLimiter
    /\ last.op = "KeyRead"
    /\ last.kind = "ratelimit"
    /\ last.via = "deadline"
    /\ lastWritten[last.id] = 0
    /\ \E k \in KIDs : lastWritten[k] = NumVals

\* C10: a client built by NewDefaultHTTPClientCtx has a limiter of one token
\* and prioritizes the remote sources: its KeyRead of a key ID that c.given
\* and a remote source hold returns the remote source's key (no read
\* failing).
C10_DefaultPrioritizesRemote ==
    (client.status = "ok" /\ client.by = "NewDefaultHTTPClientCtx")
    => /\ refreshUnknownKID.burst = 1
       /\ refreshUnknownKID.tokens <= 1
       /\ (/\ LookupReturn
           /\ GivenSrc \in last.held
           /\ last.held \ {GivenSrc} # {}
           /\ last.kind # "error")
          => /\ last.kind = "jwk"
             /\ last.from \in Remotes

\* C11: a client without a limiter (RefreshUnknownKID nil) never has a KeyRead
\* blocked in a wait, and each of its KeyRead calls returns from its lookups:
\* it refreshes no remote source and changes no source's contents, and, no
\* source holding the key ID and no read failing, it returns ErrKeyNotFound
\* for the key ID after consulting every source.
C11_NoLimiterNoRefresh ==
    [][(client.status = "ok" /\ refreshUnknownKID = NilLimiter)
       => /\ \A p \in DOMAIN waiting : waiting[p] = 0 /\ waiting'[p] = 0
          /\ Returns("KeyRead")
             => /\ last'.via = "lookup"
                /\ last'.refreshed = <<>>
                /\ UNCHANGED <<given, httpURLs, refreshUnknownKID>>
                /\ (Holders(last'.id) = {} /\ last'.kind # "error")
                   => /\ last'.kind = "ErrKeyNotFound"
                      /\ last'.jwk = ZeroJWK
                      /\ Range(last'.consulted) = Sources]_vars

C11_Witness ==
    /\ client.status = "ok"
    /\ refreshUnknownKID = NilLimiter
    /\ Cardinality(Remotes) = NumRemotes
    /\ last.op = "KeyRead"
    /\ last.kind = "ErrKeyNotFound"
    /\ last.via = "lookup"
    /\ last.held = {}
    /\ Len(last.consulted) = NumRemotes + 1

\* C12: a KeyRead blocked on the limiter does not wait for ever.  With a
\* positive rateLimitWaitMax it returns whether or not the limiter ever
\* gains a token; with any limiter that gains tokens as time passes it
\* returns; the caller's cancellation can end the wait in every state of it;
\* and the call that returns does so with a key, ErrKeyNotFound or a
\* rate-limit failure (or the failure of a source's read).
C12_WaitEnds ==
    /\ \A p \in Procs :
          (waiting[p] # 0 /\ rateLimitWaitMax > 0) ~> (waiting[p] = 0)
    /\ WF_vars(LimiterReplenish)
          => \A p \in Procs : (waiting[p] # 0) ~> (waiting[p] = 0)
    /\ [](\A p \in Procs :
            waiting[p] # 0 => ENABLED KeyReadWaitFails(p, "canceled"))
    /\ [][\A p \in Procs :
            (waiting[p] # 0 /\ waiting'[p] = 0)
            => /\ last'.op = "KeyRead"
               /\ last'.id = waiting[p]
               /\ last'.kind \in {"jwk", "ErrKeyNotFound", "ratelimit", "error"}
               /\ last'.via = "canceled" => last'.kind = "ratelimit"]_vars

C12_Witness ==
    /\ client.status = "ok"
    /\ rateLimitWaitMax > 0
    /\ refreshUnknownKID.tokens = 0
    /\ Cardinality(Remotes) = NumRemotes
    /\ \A p \in Procs : waiting[p] = 0
    /\ last.op = "KeyRead"
    /\ last.kind = "ratelimit"
    /\ last.via = "deadline"
    /\ \E u \in Remotes : httpURLs[u] # {}

\* what C13 says of a step that is NewHTTPClient(o, ok), for a test
\* wellFormed of the bare identifiers: the call returns an ErrNewClient
\* error when o has neither a local store nor a remote entry, and when a
\* bare identifier of o is not wellFormed; a call that returns a client has
\* a source and only wellFormed bare identifiers.
ConstructionFails(wellFormed(_)) ==
    client.status = "new" =>
    \A o \in OptionChoices, ok \in BOOLEAN :
        NewHTTPClient(o, ok)
        => LET urls == DOMAIN o.HTTPURLs
               bare == {u \in urls : o.HTTPURLs[u].nil}
           IN  /\ (o.Given = "nil" /\ urls = {})
                  => /\ client'.status = "ErrNewClient"
                     /\ client'.err = "no given keys or HTTP URLs"
               /\ (\E u \in bare : ~wellFormed(u))
                  => client'.status = "ErrNewClient"
               /\ client'.status \in {"ok", "ErrNewClient"}

\* a construction error comes from a constructor and from nothing else: the
\* client that was built stays built, no call is made on a client that was
\* not, and no call returns ErrNewClient
OnlyAtConstruction ==
    /\ client.status # "new" => client' = client
    /\ last' # last => client.status = "ok"
    /\ last'.kind # "ErrNewClient"
    /\ client'.status = "ok" <=> client'.err = "nil" /\ client'.by # "none"

\* C13: NewHTTPClient fails with a construction error when there
\* is neither a local store nor a remote entry, and when a bare identifier is
\* not a well-formed absolute URL; no later call returns such an error.
C13_NotAbsoluteURLFails ==
    [][ConstructionFails(AbsoluteURL) /\ OnlyAtConstruction]_vars

\* a step of a KeyRead's lookups: the call returns from them or goes on to Wait
LookupStep ==
    \/ Returns("KeyRead") /\ last'.via = "lookup"
    \/ \E p \in DOMAIN waiting : waiting[p] = 0 /\ waiting'[p] # 0

\* C14: in the lookups of a KeyRead, the sources taken in the order of the
\* call, the first source that fails with an error other than ErrKeyNotFound
\* before any source has returned the key ends the call: the call returns
\* that failure for the key ID, has consulted the sources up to the failing
\* one, each once, and none after it although one may hold the key, and it
\* neither waits on the limiter nor refreshes or changes a source.
C14_FailureAborts ==
    [][(client.status = "ok" /\ LookupStep)
       => \A p \in DOMAIN waiting, id \in KIDs, o \in Orders, f \in FailChoices :
            KeyRead(p, id, o, f)
            => LET seq == IF prioritizeHTTP THEN o \o <<GivenSrc>>
                          ELSE <<GivenSrc>> \o o
                   ends == {i \in DOMAIN seq :
                              seq[i] \in f \/ Holds(Store(seq[i]), id)}
               IN  \A i \in ends :
                     ((\A j \in ends : i <= j) /\ seq[i] \in f)
                     => /\ last'.op = "KeyRead"
                        /\ last'.id = id
                        /\ last'.kind = "error"
                        /\ last'.jwk = ZeroJWK
                        /\ last'.from = seq[i]
                        /\ last'.via = "lookup"
                        /\ last'.consulted = SubSeq(seq, 1, i)
                        /\ \A m, n \in 1..i : seq[m] = seq[n] => m = n
                        /\ last'.refreshed = <<>>
                        /\ UNCHANGED <<given, httpURLs, refreshUnknownKID,
                                       waiting>>]_vars

C14_Witness ==
    /\ client.status = "ok"
    /\ refreshUnknownKID.tokens > 0
    /\ last.op = "KeyRead"
    /\ last.kind = "error"
    /\ last.via = "lookup"
    /\ last.from \notin last.held
    /\ \E s \in last.held : s \notin Range(last.consulted)
    /\ Len(last.consulted) >= 2
    /\ \A p \in DOMAIN waiting : waiting[p] = 0

\* the event is the return of a KeyRead that the limiter admitted
RefreshReturn == Returns("KeyRead") /\ last'.via = "refresh"

\* what C15 says of the return of an admitted KeyRead, whose refreshes are
\* last'.refreshed in the order they were called: a source whose refresh
\* failed keeps its contents and is not read; the call goes on to the next
\* source after a failure, so that it ends with ErrKeyNotFound only when
\* every remote source was refreshed and none that refreshed holds the key
\* ID, and otherwise (no read failing) returns the key of the first source
\* whose refresh succeeded and left it with the key ID.
RefreshFailureSkips ==
    LET done == last'.refreshed
        hit(n) == done[n].ok /\ Holds(httpURLs'[done[n].url], last'.id)
    IN  /\ \A n \in DOMAIN done :
              /\ done[n].url \in Remotes
              /\ ~done[n].ok
                 => /\ httpURLs'[done[n].url] = httpURLs[done[n].url]
                    /\ last'.from # done[n].url
              /\ (n < Len(done) \/ last'.kind = "ErrKeyNotFound") => ~hit(n)
        /\ last'.kind = "ErrKeyNotFound"
           => {done[n].url : n \in DOMAIN done} = Remotes
        /\ last'.kind = "jwk"
           => /\ done # <<>>
              /\ hit(Len(done))
              /\ last'.from = done[Len(done)].url
              /\ last'.jwk = RemoteJWK(last'.from, last'.id)
              /\ last'.jwk \in httpURLs'[last'.from]
        /\ last'.kind \in {"jwk", "ErrKeyNotFound", "error"}

C16_WaitFailureLeavesSources ==
    [][/\ \A p \in DOMAIN waiting :
             (/\ client.status = "ok"
              /\ waiting[p] # 0 /\ waiting'[p] = 0
              /\ last'.via \in {"canceled", "deadline"})
             => /\ last'.op = "KeyRead"
                /\ last'.id = waiting[p]
                /\ last'.kind = "ratelimit"
       /\ (client.status = "ok" /\ Returns("KeyRead") /\ last'.kind = "ratelimit")
          => /\ last'.via \in {"canceled", "deadline"}
             /\ last'.via = "deadline" => rateLimitWaitMax > 0
             /\ last'.jwk = ZeroJWK
             /\ last'.refreshed = <<>>
             /\ \E p \in DOMAIN waiting :
                   waiting[p] = last'.id /\ waiting'[p] = 0
             /\ UNCHANGED <<given, httpURLs, refreshUnknownKID>>]_vars

C16_Witness ==
    /\ client.status = "ok"
    /\ Remotes # {}
    /\ \E u \in Remotes : httpURLs[u] # RemoteSet(u, KIDs)
    /\ refreshUnknownKID.tokens > 0
    /\ last.op = "KeyRead"
    /\ last.kind = "ratelimit"
    /\ last.via = "canceled"
    /\ last.refreshed = <<>>

\* C17: the remote sources are consulted in one fixed order on every call:
\* of two KeyRead calls for the same key ID that return a key from their
\* lookups one after the other, no source changing in between, the second
\* returns the copy of the same source as the first.
C17_SameCopyEveryCall ==
    [][(/\ LookupReturn
        /\ last.kind = "jwk"
        /\ Returns("KeyRead")
        /\ last'.via = "lookup"
        /\ last'.kind = "jwk"
        /\ last'.id = last.id
        /\ UNCHANGED <<given, httpURLs>>)
       => /\ last'.from = last.from
          /\ last'.jwk = last.jwk]_vars

\* a caller leaves its wait in this step / and does so admitted by the limiter
LeavesWait(p) == waiting[p] # 0 /\ waiting'[p] = 0

AdmittedStep == \E p \in DOMAIN waiting : LeavesWait(p) /\ last'.via = "refresh"

\* C18: with concurrent callers and a limiter that gains no token, every
\* KeyRead that goes on to refresh takes one of the limiter's tokens and the
\* tokens never fall below zero, so that no more calls refresh than the
\* limiter had tokens; such a call refreshes each remote source at most
\* once; only such a call changes a remote source; every other call that
\* leaves its wait, and every call that leaves it when the limiter has no
\* token, ends with a rate-limit failure and has refreshed nothing.  With a
\* limiter of capacity 1 the one call that refreshes finds the token and
\* leaves none.
C18_RefreshesWithinTokens ==
    [][client.status = "ok"
       => /\ refreshUnknownKID'.tokens >= 0
          /\ refreshUnknownKID'.tokens <= refreshUnknownKID.tokens
          /\ refreshUnknownKID'.burst = refreshUnknownKID.burst
          /\ AdmittedStep
             => /\ refreshUnknownKID.tokens >= 1
                /\ refreshUnknownKID'.tokens = refreshUnknownKID.tokens - 1
                /\ refreshUnknownKID.burst = 1 => refreshUnknownKID'.tokens = 0
                /\ \A m, n \in DOMAIN last'.refreshed :
                      last'.refreshed[m].url = last'.refreshed[n].url => m = n
          /\ ~AdmittedStep
             => /\ httpURLs' = httpURLs
                /\ refreshUnknownKID' = refreshUnknownKID
          /\ \A p \in DOMAIN waiting :
                (LeavesWait(p) /\ (refreshUnknownKID.tokens = 0 \/ ~AdmittedStep))
                => /\ last'.op = "KeyRead"
                   /\ last'.id = waiting[p]
                   /\ last'.kind = "ratelimit"
                   /\ last'.refreshed = <<>>]_vars

C18_Witness ==
    /\ client.status = "ok"
    /\ refreshUnknownKID = [burst |-> 1, tokens |-> 0]
    /\ \E u \in Remotes : httpURLs[u] # {}
    /\ last.op = "KeyRead"
    /\ last.kind = "ratelimit"
    /\ last.held = {}
    /\ \E p, q \in DOMAIN waiting : p # q /\ waiting[p] = 0 /\ waiting[q] # 0

\* C19: a KeyRead that the limiter admitted refreshes remote sources one
\* after the other, each at most once, and after each refresh that succeeds
\* reads the source just refreshed and no other: the call returns at the
\* first source that then gives the key, with that source's key and without
\* refreshing a further source, whatever c.given holds by then; it ends
\* with ErrKeyNotFound after exactly one refresh of every remote source;
\* and the sources it did not refresh, and c.given, keep their contents.
C19_EachSourceOnceThenItsKey ==
    [][(client.status = "ok" /\ RefreshReturn)
       => LET done == last'.refreshed
              urlsDone == {done[n].url : n \in DOMAIN done}
          IN  /\ Cardinality(urlsDone) = Len(done)
              /\ urlsDone \subseteq Remotes
              /\ given' = given
              /\ \A u \in Remotes \ urlsDone : httpURLs'[u] = httpURLs[u]
              /\ last'.kind = "jwk"
                 => /\ last'.from \in Remotes
                    /\ last'.from = done[Len(done)].url
                    /\ done[Len(done)].ok
                    /\ last'.jwk \in httpURLs'[last'.from]
                    /\ last'.jwk.kid = last'.id
                    /\ \A n \in 1..(Len(done) - 1) :
                          ~(done[n].ok /\ Holds(httpURLs'[done[n].url], last'.id))
              /\ last'.kind = "ErrKeyNotFound"
                 => /\ urlsDone = Remotes
                    /\ Len(done) = Cardinality(Remotes)
              /\ last'.kind = "error"
                 => /\ done # <<>>
                    /\ last'.from = done[Len(done)].url
                    /\ done[Len(done)].ok]_vars

C19_Witness ==
    /\ client.status = "ok"
    /\ Cardinality(Remotes) = 2
    /\ last.op = "KeyRead"
    /\ last.via = "refresh"
    /\ last.kind = "jwk"
    /\ last.from \in Remotes
    /\ Len(last.refreshed) = 1
    /\ GivenSrc \in last.held
    /\ Holds(given, last.id)
    /\ last.jwk \in httpURLs[last.from]

\* the key IDs that some source holds
HeldKIDs == {k \in KIDs : Holders(k) # {}}

\* the store combineStorage returned holds one key per key ID, and its key
\* IDs are those that some source holds
OneKeyPerHeldKID ==
    /\ \A j, k \in last'.combined : j.kid = k.kid => j = k
    /\ {j.kid : j \in last'.combined} = HeldKIDs
    /\ \A j \in last'.combined : j \in Store(j.src)

\* C20 as claimed: the store combineStorage returns holds one key per key ID
\* that some source holds, and no other, and under each key ID the copy of
\* a source that KeyRead would return it from under prioritizeHTTP.
C20_CombinedIsWhatKeyReadGives ==
    [][(Returns("combineStorage") /\ last'.kind = "nil")
       => /\ OneKeyPerHeldKID
          /\ \A j \in last'.combined : j.src \in FirstInReadOrder(j.kid)]_vars

\* C20 as amended: the store combineStorage returns holds one key per key ID
\* that some source holds, and no other, and under each key ID the copy
\* written last, that of the last source holding the ID in the order
\* KeyReadAll read the sources, c.given first: a remote source's copy when a
\* remote source holds the ID, whatever prioritizeHTTP, and the copy of
\* c.given only when no remote source does.  The sources are not changed.
C20_CombinedIsLastWritten ==
    [][(Returns("combineStorage") /\ last'.kind = "nil")
       => /\ OneKeyPerHeldKID
          /\ UNCHANGED <<given, httpURLs>>
          /\ \A j \in last'.combined :
                j.src = GivenSrc <=> Holders(j.kid) = {GivenSrc}
          /\ \E o \in Orders :
                \A j \in last'.combined :
                   \A i \in DOMAIN o :
                      Holds(httpURLs[o[i]], j.kid)
                      => \E n \in i..Len(o) : j.src = o[n]]_vars

C20_Witness ==
    /\ client.status = "ok"
    /\ ~prioritizeHTTP
    /\ last.op = "combineStorage"
    /\ last.kind = "nil"
    /\ Cardinality(last.combined) = NumKIDs
    /\ \E j \in last.combined :
          /\ j.src \in Remotes
          /\ Holds(given, j.kid)
          /\ Cardinality(Holders(j.kid)) = 3

====
